---- MODULE Spec2Model ----
(***************************************************************************)
(* A model of pants.stream.Stream (src/pants/stream.py): the connection    *)
(* lifecycle, the outbound buffer, the inbound framer and the accept loop  *)
(* of one Stream driven by its owner and by the Engine's readiness events. *)
(*                                                                         *)
(* Every operation of the class is an operator over a record s holding the *)
(* Stream's fields; an action applies one public operation or one          *)
(* readiness handler, whole, to the current fields.  Owner callbacks are   *)
(* "hooks": small programs that may themselves call the public operations. *)
(* The socket primitives and the callback wrapper live in pants.channel,   *)
(* the Engine in pants.engine; their sources are not at hand, so they are  *)
(* modelled from the interface the specification gives for them.           *)
(***************************************************************************)
EXTENDS Integers, Sequences, FiniteSets, TLC

(***************************************************************************)
(* Bounds of the model.                                                    *)
(***************************************************************************)
MaxOut == 3        \* bytes the owner writes over a Stream's life
MaxWriteLen == 2   \* longest data of one write()
MaxIn == 3         \* longest recv_buffer a read pass may build up
MaxDepth == 2      \* nesting of operations called from inside callbacks
MaxPending == 2    \* connections pending at one accept pass
MaxIter == 4       \* messages one run of the extraction loop is followed for

None == "None"
Byte == {"a", "b"}

\* values of read_delimiter: None, an int, a string, or anything else
NoDelimiter == [kind |-> "None", n |-> 0, t |-> <<>>]
FixedLength(n) == [kind |-> "int", n |-> n, t |-> <<>>]
Terminator(t) == [kind |-> "str", n |-> 0, t |-> t]
InvalidDelimiter == [kind |-> "other", n |-> 0, t |-> <<>>]
Delimiters ==
    {NoDelimiter, InvalidDelimiter, FixedLength(1), FixedLength(2),
     Terminator(<<"a">>), Terminator(<<"a", "b">>)}

\* what an owner callback does when it is invoked
Hooks == {"pass", "raise", "close", "end", "write", "connect", "delim"}

VARIABLES
    socket,          \* self._socket: "fd" or None
    connected,       \* self._connected
    connecting,      \* self._connecting
    listening,       \* self._listening
    recv_buffer,     \* self._recv_buffer
    send_buffer,     \* self._send_buffer
    read_delimiter,  \* self.read_delimiter
    remote_addr,     \* self.remote_addr
    local_addr,      \* self.local_addr
    on_write,        \* self.on_write: the owner's ("user") or self.close ("close")
    callbacks,       \* the handlers the owner assigned: what each does when called
    quota,           \* bytes the owner will write (out) and a pass may buffer (in)
    in_engine,       \* the Engine holds this channel
    wait_write,      \* write-readiness was requested from the Engine
    wire,            \* bytes the send primitive accepted so far
    written,         \* data of every write() made while Connected, in call order
    op,              \* the operation that ran last, with its inputs
    log,             \* what that operation did: callbacks, Engine calls, log records
    accepted,        \* handles its accept pass delivered: TRUE while still open
    raised           \* the exception that escaped it, or None

fields ==
    <<socket, connected, connecting, listening, recv_buffer, send_buffer,
      read_delimiter, remote_addr, local_addr, on_write>>
vars ==
    <<socket, connected, connecting, listening, recv_buffer, send_buffer,
      read_delimiter, remote_addr, local_addr, on_write, in_engine,
      wait_write, wire, written, callbacks, quota, op, log, accepted, raised>>

(***************************************************************************)
(* Helpers.                                                                *)
(***************************************************************************)
Min(a, b) == IF a <= b THEN a ELSE b
Drop(q, k) == SubSeq(q, k + 1, Len(q))
Take(q, k) == SubSeq(q, 1, k)

Ev(e, d) == [ev |-> e, data |-> d]
Log(s, e) == [s EXCEPT !.log = Append(@, Ev(e, <<>>))]
LogData(s, e, d) == [s EXCEPT !.log = Append(@, Ev(e, d))]
Raise(s, e) == [s EXCEPT !.exc = e]
Count(l, e) == Cardinality({i \in 1..Len(l) : l[i].ev = e})
Payloads(l) ==
    LET idx == {i \in 1..Len(l) : l[i].ev = "on_read"}
        F[k \in 0..Len(l)] ==
            IF k = 0 THEN <<>>
            ELSE IF k \in idx THEN Append(F[k - 1], l[k].data) ELSE F[k - 1]
    IN F[Len(l)]
RECURSIVE Flatten(_)
Flatten(qs) == IF qs = <<>> THEN <<>> ELSE Head(qs) \o Flatten(Tail(qs))

(***************************************************************************)
(* Status methods.                                                         *)
(***************************************************************************)
closed(s) == s.socket = None

\* active() forgetting the Connecting state
active_established(s) == ~closed(s) /\ (s.listening \/ s.connected)

active(s) == ~closed(s) /\ (s.listening \/ s.connected \/ s.connecting)

(***************************************************************************)
(* pants.channel and pants.engine, from their interface: each primitive    *)
(* takes its outcome from s.env, the outcomes this pass will meet.         *)
(***************************************************************************)
remove_channel(s) == [Log(s, "remove_channel") EXCEPT !.in_engine = FALSE]

_socket_close(s) == [s EXCEPT !.socket = None]

_wait_for_write(s) == [Log(s, "wait_for_write") EXCEPT !.wait_write = TRUE]

\* "done": connected at once; "pending": in progress; "error": socket.error.
\* A Stream without a handle has nothing to connect.
_socket_connect(s) == IF closed(s) THEN "error" ELSE s.env.connect

\* bind and listen together: "ok" or "error"
_socket_bind_listen(s) == IF closed(s) THEN "error" ELSE s.env.bind

\* send(data): the next outcome of s.env.sends, [err, n]: socket.error, or the
\* first Min(n, Len(data)) bytes are accepted.  A short send asks the Engine
\* for write-readiness (the NOTE in _send).
_socket_send(s, data) ==
    LET o == IF s.env.sends = <<>> THEN [err |-> FALSE, n |-> Len(data)]
             ELSE Head(s.env.sends)
        s1 == [s EXCEPT !.env.sends = IF @ = <<>> THEN @ ELSE Tail(@)]
        k == Min(o.n, Len(data))
        s2 == [LogData(s1, "send", Take(data, k)) EXCEPT !.wire = @ \o Take(data, k)]
    IN IF o.err THEN [st |-> Log(s1, "send_error"), err |-> TRUE, n |-> 0]
       ELSE [st |-> IF k < Len(data) THEN _wait_for_write(s2) ELSE s2,
             err |-> FALSE, n |-> k]

(***************************************************************************)
(* Internal methods.                                                       *)
(***************************************************************************)
_update_addr(s) ==
    IF s.connected
    THEN [s EXCEPT !.remote_addr = "peername", !.local_addr = "sockname"]
    ELSE IF s.listening
    THEN [s EXCEPT !.remote_addr = None, !.local_addr = "sockname"]
    ELSE [s EXCEPT !.remote_addr = None, !.local_addr = None]

RECURSIVE close(_, _, _), end(_, _, _), _send(_, _, _, _, _),
          safely_call(_, _, _, _, _), hook(_, _, _, _), connect(_, _, _),
          _handle_connect_event(_, _, _)

\* Channel._safely_call: the callback runs and whatever it raises is caught and
\* logged.  end() may have put self.close in the place of the owner's on_write.
\* The record of an on_write call keeps the _send_buffer the call found.
safely_call(s, name, data, cb, d) ==
    IF name = "on_write" /\ s.on_write = "close"
    THEN [close(LogData(s, "on_write=close", s.send_buffer), cb, d) EXCEPT !.exc = None]
    ELSE LET s1 == LogData(s, name, IF name = "on_write" THEN s.send_buffer ELSE data)
             h == IF d = 0 THEN "pass" ELSE cb[name]
         IN [hook(s1, h, cb, d - 1) EXCEPT !.exc = None]

\* the owner's callback body
hook(s, h, cb, d) ==
    CASE h = "pass" -> s
      [] h = "raise" -> Raise(s, "Exception")
      [] h = "close" -> close(Log(s, "call close"), cb, d)
      [] h = "end" -> end(Log(s, "call end"), cb, d)
      [] h = "write" ->
            \* the owner has cb.out bytes to write, and writes the next one
            IF Len(s.written) >= cb.out THEN s
            ELSE _send(Log(s, "call write"), <<Len(s.written) + 1>>, FALSE, cb, d)
      [] h = "connect" -> connect(Log(s, "call connect"), cb, d)
      [] h = "delim" -> [Log(s, "set delimiter") EXCEPT !.read_delimiter = cb.delim]

(***************************************************************************)
(* Control methods.                                                        *)
(***************************************************************************)
\* close() without its guard against a second call
close_unguarded(s, cb, d) ==
    LET s1 == _socket_close(remove_channel(s))
        s2 == [s1 EXCEPT !.connected = FALSE,
                         !.connecting = FALSE,
                         !.listening = FALSE,
                         !.recv_buffer = <<>>,
                         !.read_delimiter = NoDelimiter,
                         !.send_buffer = <<>>]
    IN safely_call(_update_addr(s2), "on_close", <<>>, cb, d)

\* close() leaving _recv_buffer as it is
close_keeps_recv(s, cb, d) ==
    IF closed(s) THEN s
    ELSE LET s1 == _socket_close(remove_channel(s))
             s2 == [s1 EXCEPT !.connected = FALSE,
                              !.connecting = FALSE,
                              !.listening = FALSE,
                              !.read_delimiter = NoDelimiter,
                              !.send_buffer = <<>>]
         IN safely_call(_update_addr(s2), "on_close", <<>>, cb, d)

close(s, cb, d) ==
    IF closed(s) THEN s
    ELSE LET s1 == _socket_close(remove_channel(s))
             s2 == [s1 EXCEPT !.connected = FALSE,
                              !.connecting = FALSE,
                              !.listening = FALSE,
                              !.recv_buffer = <<>>,
                              !.read_delimiter = NoDelimiter,
                              !.send_buffer = <<>>]
         IN safely_call(_update_addr(s2), "on_close", <<>>, cb, d)

\* end() closing at once, backlog or not
end_hasty(s, cb, d) ==
    IF closed(s) THEN s ELSE close(s, cb, d)

\* end() leaving the backlog to drain without asking for the close
end_forgets(s, cb, d) ==
    IF closed(s) THEN s
    ELSE IF s.send_buffer = <<>> THEN close(s, cb, d)
    ELSE s

end(s, cb, d) ==
    IF closed(s) THEN s
    ELSE IF s.send_buffer = <<>> THEN close(s, cb, d)
    ELSE [s EXCEPT !.on_write = "close"]

_handle_connect_event(s, cb, d) ==
    LET err == s.env.so_error
        s0 == LogData(s, "so_error", <<err>>)
    IN
    IF err # 0
    THEN \* os and errno are not imported: building the message raises
         \* NameError before socket.error is raised; either way it escapes
         Raise(s0, "NameError")
    ELSE LET s1 == _update_addr(s0)
             s2 == [s1 EXCEPT !.connected = TRUE, !.connecting = FALSE]
         IN safely_call(s2, "on_connect", <<>>, cb, d)

\* connect() without its test of active()
connect_unguarded(s, cb, d) ==
    LET s1 == [s EXCEPT !.connecting = TRUE]
        r == _socket_connect(s1)
    IN IF r = "error" THEN close(Log(s1, "log.exception"), cb, d)
       ELSE IF r = "done" THEN _handle_connect_event(s1, cb, d)
       ELSE s1

connect(s, cb, d) ==
    IF active(s) THEN Log(s, "log.warning")
    ELSE LET s1 == [s EXCEPT !.connecting = TRUE]
             r == _socket_connect(s1)
         IN IF r = "error" THEN close(Log(s1, "log.exception"), cb, d)
            ELSE IF r = "done" THEN _handle_connect_event(s1, cb, d)
            ELSE s1

\* the two setsockopt calls change nothing the Stream keeps, and an
\* AttributeError from them is ignored
listen(s, cb, d) ==
    IF active(s) THEN Log(s, "log.warning")
    ELSE IF _socket_bind_listen(s) = "error"
    THEN close(Log(s, "log.exception"), cb, d)
    ELSE [_update_addr(s) EXCEPT !.listening = TRUE]

(***************************************************************************)
(* I/O methods.                                                            *)
(***************************************************************************)
\* _send() putting new data in front of the backlog
_send_prepends(s, data, buffer_data, cb, d) ==
    IF closed(s) THEN Log(s, "log.warning")
    ELSE IF ~s.connected THEN Log(s, "log.warning")
    ELSE LET s0 == [s EXCEPT !.written = @ \o data] IN
         IF buffer_data \/ s0.send_buffer # <<>>
         THEN _wait_for_write([s0 EXCEPT !.send_buffer = data \o @])
         ELSE LET r == _socket_send(s0, data) IN
              IF r.err THEN close(Log(r.st, "log.exception"), cb, d)
              ELSE IF Len(Drop(data, r.n)) > 0
              THEN [r.st EXCEPT !.send_buffer = @ \o Drop(data, r.n)]
              ELSE safely_call(r.st, "on_write", <<>>, cb, d)

\* _send() without its test of self._connected
_send_unconnected(s, data, buffer_data, cb, d) ==
    IF closed(s) THEN Log(s, "log.warning")
    ELSE LET s0 == [s EXCEPT !.written = @ \o data] IN
         IF buffer_data \/ s0.send_buffer # <<>>
         THEN _wait_for_write([s0 EXCEPT !.send_buffer = @ \o data])
         ELSE LET r == _socket_send(s0, data) IN
              IF r.err THEN close(Log(r.st, "log.exception"), cb, d)
              ELSE IF Len(Drop(data, r.n)) > 0
              THEN [r.st EXCEPT !.send_buffer = @ \o Drop(data, r.n)]
              ELSE safely_call(r.st, "on_write", <<>>, cb, d)

_send(s, data, buffer_data, cb, d) ==
    IF closed(s) THEN Log(s, "log.warning")
    ELSE IF ~s.connected THEN Log(s, "log.warning")
    ELSE LET s0 == [s EXCEPT !.written = @ \o data] IN
         IF buffer_data \/ s0.send_buffer # <<>>
         THEN _wait_for_write([s0 EXCEPT !.send_buffer = @ \o data])
         ELSE LET r == _socket_send(s0, data) IN
              IF r.err THEN close(Log(r.st, "log.exception"), cb, d)
              ELSE IF Len(Drop(data, r.n)) > 0
              THEN [r.st EXCEPT !.send_buffer = @ \o Drop(data, r.n)]
              ELSE safely_call(r.st, "on_write", <<>>, cb, d)

write(s, data, buffer_data, cb, d) == _send(s, data, buffer_data, cb, d)

(***************************************************************************)
(* More of pants.channel: the receive and accept primitives.               *)
(***************************************************************************)
\* recv(): the next outcome of s.env.recvs, [err, data]: socket.error, or the
\* bytes read; the empty string when nothing more is available.
_socket_recv(s) ==
    LET o == IF s.env.recvs = <<>> THEN [err |-> FALSE, data |-> <<>>]
             ELSE Head(s.env.recvs)
        s1 == [s EXCEPT !.env.recvs = IF @ = <<>> THEN @ ELSE Tail(@)]
    IN [st |-> IF o.data = <<>> THEN s1 ELSE LogData(s1, "recv", o.data),
        err |-> closed(s) \/ o.err, data |-> o.data]

\* accept(): the next outcome of s.env.accepts: "conn", a pending connection;
\* "error", socket.error; None, when no connection is pending.
_socket_accept(s) ==
    LET o == IF s.env.accepts = <<>> THEN None ELSE Head(s.env.accepts)
        s1 == [s EXCEPT !.env.accepts = IF @ = <<>> THEN @ ELSE Tail(@)]
    IN [st |-> s1, ret |-> IF closed(s) THEN "error" ELSE o]

(***************************************************************************)
(* Internal processing methods.                                            *)
(***************************************************************************)
\* str.find: the index, from 0, of the first occurrence of t in buf, or -1
find(buf, t) ==
    LET at == {i \in 0..(Len(buf) - Len(t)) : SubSeq(buf, i + 1, i + Len(t)) = t}
    IN IF at = {} THEN -1 ELSE CHOOSE i \in at : \A j \in at : i <= j

\* the body of the while loop, run once: what it leaves, and whether the loop
\* goes on (no break was taken)
loop_body(s, cb, d) ==
    LET delimiter == s.read_delimiter
        buf == s.recv_buffer
        mark == find(buf, delimiter.t)
        break(s1) == [st |-> s1, again |-> FALSE]
        deliver(data, rest) ==
            LET s1 == safely_call([s EXCEPT !.recv_buffer = rest],
                                  "on_read", data, cb, d)
            IN [st |-> s1, again |-> ~(closed(s1) \/ ~s1.connected)]
    IN CASE delimiter.kind = "None" -> deliver(buf, <<>>)
         [] delimiter.kind = "int" ->
               IF Len(buf) < delimiter.n THEN break(s)
               ELSE deliver(Take(buf, delimiter.n), Drop(buf, delimiter.n))
         [] delimiter.kind = "str" ->
               IF mark = -1 THEN break(s)
               ELSE deliver(Take(buf, mark), Drop(buf, mark + Len(delimiter.t)))
         [] OTHER -> break(Log(s, "log.warning"))

RECURSIVE _process_recv_buffer(_, _, _)
_process_recv_buffer(s, cb, d) ==
    IF s.recv_buffer = <<>> THEN s
    ELSE LET r == loop_body(s, cb, d)
         IN IF r.again THEN _process_recv_buffer(r.st, cb, d) ELSE r.st

(***************************************************************************)
(* Internal event handler methods.                                         *)
(***************************************************************************)
\* sock is the local variable of the loop: None while unbound, else the
\* index in s.accepted of the handle accepted last
RECURSIVE accept_loop(_, _, _, _)
\* the accept loop returning after the first connection it delivered
accept_loop_once(s, sock, cb, d) ==
    LET r == _socket_accept(s) IN
    IF r.ret = "error"
    THEN LET s1 == Log(r.st, "log.exception") IN
         IF sock = 0 THEN Raise(s1, "UnboundLocalError")
         ELSE [s1 EXCEPT !.accepted[sock] = FALSE]
    ELSE IF r.ret = None THEN r.st
    ELSE LET k == Len(r.st.accepted) + 1
             s1 == [r.st EXCEPT !.accepted = Append(@, TRUE)]
         IN safely_call(s1, "on_accept", <<k>>, cb, d)

accept_loop(s, sock, cb, d) ==
    LET r == _socket_accept(s) IN
    IF r.ret = "error"
    THEN LET s1 == Log(r.st, "log.exception") IN
         IF sock = 0 THEN Raise(s1, "UnboundLocalError")
         ELSE [s1 EXCEPT !.accepted[sock] = FALSE]
    ELSE IF r.ret = None THEN r.st
    ELSE LET k == Len(r.st.accepted) + 1
             s1 == [r.st EXCEPT !.accepted = Append(@, TRUE)]
         IN accept_loop(safely_call(s1, "on_accept", <<k>>, cb, d), k, cb, d)

_handle_accept_event(s, cb, d) == accept_loop(s, 0, cb, d)

RECURSIVE recv_loop(_, _, _)
recv_loop(s, cb, d) ==
    LET r == _socket_recv(s) IN
    IF r.err THEN close(Log(r.st, "log.exception"), cb, d)
    ELSE IF r.data = <<>> THEN _process_recv_buffer(r.st, cb, d)
    ELSE recv_loop([r.st EXCEPT !.recv_buffer = @ \o r.data], cb, d)

_handle_read_event(s, cb, d) ==
    IF s.listening THEN _handle_accept_event(s, cb, d)
    ELSE recv_loop(s, cb, d)

\* the write event calling on_write after every send that did not fail
_handle_write_event_eager(s, cb, d) ==
    IF s.listening THEN Log(s, "log.warning")
    ELSE LET s1 == IF ~s.connected THEN _handle_connect_event(s, cb, d) ELSE s IN
         IF s1.exc # None THEN s1
         ELSE IF s1.send_buffer = <<>> THEN s1
         ELSE LET r == _socket_send(s1, s1.send_buffer) IN
              IF r.err THEN close(Log(r.st, "log.exception"), cb, d)
              ELSE safely_call([r.st EXCEPT !.send_buffer = Drop(@, r.n)],
                               "on_write", <<>>, cb, d)

_handle_write_event(s, cb, d) ==
    IF s.listening THEN Log(s, "log.warning")
    ELSE LET s1 == IF ~s.connected THEN _handle_connect_event(s, cb, d) ELSE s IN
         IF s1.exc # None THEN s1
         ELSE IF s1.send_buffer = <<>> THEN s1
         ELSE LET r == _socket_send(s1, s1.send_buffer) IN
              IF r.err THEN close(Log(r.st, "log.exception"), cb, d)
              ELSE LET s2 == [r.st EXCEPT !.send_buffer = Drop(@, r.n)] IN
                   IF s2.send_buffer = <<>>
                   THEN safely_call(s2, "on_write", <<>>, cb, d)
                   ELSE s2

(***************************************************************************)
(* The state machine.                                                      *)
(***************************************************************************)
\* the owner's handlers: one behaviour for on_connect, on_read, on_write and
\* on_accept, one for on_close, and the delimiter a "delim" handler assigns
Handlers(h, g, dl) ==
    [on_connect |-> h, on_read |-> h, on_write |-> h, on_accept |-> h,
     on_close |-> g, delim |-> dl]
Callbacks ==
    {Handlers(h, "pass", NoDelimiter) : h \in Hooks \ {"delim"}}
    \cup {Handlers("pass", g, NoDelimiter) : g \in {"close", "connect", "write", "raise"}}
    \cup {Handlers("close", "close", NoDelimiter)}
    \cup {Handlers("delim", "pass", dl) : dl \in {FixedLength(1), Terminator(<<"a">>)}}

\* outcomes of the primitives during one pass
DefaultEnv ==
    [connect |-> "pending", bind |-> "ok", so_error |-> 0,
     sends |-> <<>>, recvs |-> <<>>, accepts |-> <<>>]
SendOk(n) == [err |-> FALSE, n |-> n]
SendError == [err |-> TRUE, n |-> 0]
SendSeqs ==
    {<<>>, <<SendError>>, <<SendOk(0)>>, <<SendOk(1)>>,
     <<SendOk(1), SendError>>, <<SendOk(MaxOut), SendOk(0)>>}
ByteSeqs(n) == UNION {[1..k -> Byte] : k \in 1..n}
RecvOk(data) == [err |-> FALSE, data |-> data]
RecvError == [err |-> TRUE, data |-> <<>>]
RecvSeqs(room) ==
    {<<>>, <<RecvError>>}
    \cup {<<RecvOk(data)>> : data \in ByteSeqs(room)}
    \cup {<<RecvOk(d1), x>> : d1 \in ByteSeqs(Min(room, 1)),
                              x \in {RecvError}
                                    \cup {RecvOk(d2) : d2 \in ByteSeqs(Min(room - 1, 1))}}
AcceptSeqs ==
    {<<>>, <<"error">>, <<"conn">>, <<"conn", "error">>}
    \cup {[i \in 1..k |-> "conn"] : k \in 2..MaxPending}

\* the Stream's fields, and the record of one pass, about to start
Self(env) ==
    [socket |-> socket, connected |-> connected, connecting |-> connecting,
     listening |-> listening, recv_buffer |-> recv_buffer,
     send_buffer |-> send_buffer, read_delimiter |-> read_delimiter,
     remote_addr |-> remote_addr, local_addr |-> local_addr,
     on_write |-> on_write, in_engine |-> in_engine, wait_write |-> wait_write,
     wire |-> wire, written |-> written,
     log |-> <<>>, accepted |-> <<>>, exc |-> None, env |-> env]

\* the pass has returned (or raised): r is what it left
Returns(name, data, flag, r) ==
    /\ socket' = r.socket
    /\ connected' = r.connected
    /\ connecting' = r.connecting
    /\ listening' = r.listening
    /\ recv_buffer' = r.recv_buffer
    /\ send_buffer' = r.send_buffer
    /\ read_delimiter' = r.read_delimiter
    /\ remote_addr' = r.remote_addr
    /\ local_addr' = r.local_addr
    /\ on_write' = r.on_write
    /\ in_engine' = r.in_engine
    /\ wait_write' = r.wait_write
    /\ wire' = r.wire
    /\ written' = r.written
    /\ log' = r.log
    /\ accepted' = r.accepted
    /\ raised' = r.exc
    /\ op' = [name |-> name, data |-> data, flag |-> flag]
    /\ UNCHANGED <<callbacks, quota>>

\* Stream(**kwargs): a handle (a new socket, or the one the caller passed,
\* which may already have a peer), no lifecycle flag set, empty buffers, and
\* the handlers the owner assigns before the Engine runs
Fresh ==
    /\ socket = "fd"
    /\ connected = FALSE
    /\ connecting = FALSE
    /\ listening = FALSE
    /\ recv_buffer = <<>>
    /\ send_buffer = <<>>
    /\ read_delimiter = NoDelimiter
    /\ remote_addr = None
    /\ local_addr = None
    /\ on_write = "user"
    /\ callbacks \in Callbacks
    /\ in_engine = TRUE
    /\ wait_write = FALSE
    /\ wire = <<>>
    /\ written = <<>>
    /\ op = [name |-> "__init__", data |-> <<>>, flag |-> FALSE]
    /\ log = <<>>
    /\ accepted = <<>>
    /\ raised = None

\* a Stream whose owner writes up to MaxOut bytes and reads byte by byte
Init == Fresh /\ quota = [out |-> MaxOut, in |-> 1]

\* a Stream whose owner only reads, up to MaxIn buffered bytes
InitFraming == Fresh /\ quota = [out |-> 0, in |-> MaxIn]

Room == quota.out - Len(written)
Owner == [on_connect |-> callbacks.on_connect, on_read |-> callbacks.on_read,
          on_write |-> callbacks.on_write, on_accept |-> callbacks.on_accept,
          on_close |-> callbacks.on_close, delim |-> callbacks.delim,
          out |-> quota.out]

Connect ==
    \E c \in {"done", "pending", "error"}, ss \in SendSeqs :
        /\ ss = <<>> \/ (c = "done" /\ callbacks.on_connect = "write" /\ Room > 0)
        /\ Returns("connect", <<>>, FALSE,
                   connect(Self([DefaultEnv EXCEPT !.connect = c, !.sends = ss]),
                           Owner, MaxDepth))

Listen ==
    \E b \in {"ok", "error"} :
        Returns("listen", <<>>, FALSE,
                listen(Self([DefaultEnv EXCEPT !.bind = b]), Owner, MaxDepth))

Close ==
    Returns("close", <<>>, FALSE, close(Self(DefaultEnv), Owner, MaxDepth))

End ==
    Returns("end", <<>>, FALSE, end(Self(DefaultEnv), Owner, MaxDepth))

Write ==
    \E n \in 0..Min(MaxWriteLen, Room), buffer_data \in BOOLEAN, ss \in SendSeqs :
        LET data == [i \in 1..n |-> Len(written) + i] IN
        /\ ss = <<>> \/ (connected /\ ~buffer_data /\ send_buffer = <<>>)
        /\ Returns("write", data, buffer_data,
                   write(Self([DefaultEnv EXCEPT !.sends = ss]), data, buffer_data,
                         Owner, MaxDepth))

SetReadDelimiter ==
    \E dl \in Delimiters :
        /\ dl # read_delimiter
        /\ Returns("read_delimiter", <<>>, FALSE,
                   [Self(DefaultEnv) EXCEPT !.read_delimiter = dl])

Pending(as) == Cardinality({i \in 1..Len(as) : as[i] = "conn"})

HandleReadEvent ==
    /\ in_engine
    /\ \E rs \in RecvSeqs(quota.in - Len(recv_buffer)), as \in AcceptSeqs, ss \in SendSeqs :
        /\ as = <<>> \/ (listening /\ rs = <<>>)
        /\ rs = <<>> \/ ~listening
        /\ ss = <<>> \/ (connected /\ rs # <<>> /\ Len(ss) = 1
                          /\ callbacks.on_read = "write" /\ Room > 0)
        \* op.data: how many connections are pending
        /\ Returns("read_event", <<Pending(as)>>, FALSE,
                   _handle_read_event(Self([DefaultEnv EXCEPT !.recvs = rs,
                                                              !.accepts = as,
                                                              !.sends = ss]),
                                      Owner, MaxDepth))

\* a write event uses up the Stream's request for one
Notified(env) == [Self(env) EXCEPT !.wait_write = FALSE]

HandleWriteEvent ==
    /\ in_engine
    /\ \E e \in {0, 111}, ss \in SendSeqs :
        \* a pending error is what a connect attempt left
        /\ e = 0 \/ connecting
        /\ ss = <<>> \/ send_buffer # <<>>
                     \/ (~connected /\ callbacks.on_connect = "write" /\ Room > 0)
        /\ Returns("write_event", <<>>, FALSE,
                   _handle_write_event(Notified([DefaultEnv EXCEPT !.so_error = e,
                                                                   !.sends = ss]),
                                       Owner, MaxDepth))

\* the Engine delivers the write event the Stream asked for, and the send
\* primitive accepts at least one byte of the backlog
Flush ==
    /\ in_engine
    /\ wait_write
    /\ send_buffer # <<>>
    /\ \E r \in {_handle_write_event(Notified([DefaultEnv EXCEPT !.sends = <<SendOk(1)>>]),
                                      Owner, MaxDepth)} :
            Returns("write_event", <<>>, FALSE, r)

Next ==
    \/ Connect
    \/ Listen
    \/ Close
    \/ End
    \/ Write
    \/ SetReadDelimiter
    \/ HandleReadEvent
    \/ HandleWriteEvent

Spec == Init /\ [][Next]_vars

SpecFraming == InitFraming /\ [][Next]_vars

\* a Stream whose owner writes up to MaxWriteLen bytes and reads nothing
InitLive == Fresh /\ quota = [out |-> MaxWriteLen, in |-> 0]

\* the outbound side alone
NextLive ==
    \/ Connect
    \/ Close
    \/ End
    \/ Write
    \/ HandleWriteEvent

\* the Engine never leaves a write event the Stream asked for undelivered
SpecLive == InitLive /\ [][NextLive]_vars /\ WF_vars(Flush)

(***************************************************************************)
(* _process_recv_buffer, one iteration at a time: the Stream is Connected, *)
(* _handle_read_event has just filled _recv_buffer, and read_delimiter is  *)
(* whatever the owner assigned, a length of 0 included.  op.flag tells     *)
(* whether the loop is still running.                                      *)
(***************************************************************************)
LoopDelimiters == Delimiters \cup {FixedLength(0)}

InitLoop ==
    /\ socket = "fd"
    /\ connected = TRUE
    /\ connecting = FALSE
    /\ listening = FALSE
    /\ recv_buffer \in ByteSeqs(MaxIn)
    /\ send_buffer = <<>>
    /\ read_delimiter \in LoopDelimiters
    /\ remote_addr = "peername"
    /\ local_addr = "sockname"
    /\ on_write = "user"
    /\ callbacks \in Callbacks
    /\ quota = [out |-> 0, in |-> MaxIn]
    /\ in_engine = TRUE
    /\ wait_write = FALSE
    /\ wire = <<>>
    /\ written = <<>>
    /\ op = [name |-> "_process_recv_buffer", data |-> <<>>, flag |-> TRUE]
    /\ log = <<Ev("recv", recv_buffer)>>
    /\ accepted = <<>>
    /\ raised = None

Running == op.name = "_process_recv_buffer" /\ op.flag

\* while self._recv_buffer: one run of the body
LoopIterate ==
    /\ Running
    /\ recv_buffer # <<>>
    /\ Count(log, "on_read") < MaxIter
    /\ LET r == loop_body([Self(DefaultEnv) EXCEPT !.log = log], Owner, MaxDepth)
       IN Returns("_process_recv_buffer", <<>>, r.again, r.st)

\* while self._recv_buffer: the buffer is empty and the method returns
LoopReturn ==
    /\ Running
    /\ recv_buffer = <<>>
    /\ Returns("_process_recv_buffer", <<>>, FALSE, [Self(DefaultEnv) EXCEPT !.log = log])

NextLoop ==
    \/ LoopIterate
    \/ LoopReturn

SpecLoop == InitLoop /\ [][NextLoop]_vars

(***************************************************************************)
(* Properties.                                                             *)
(***************************************************************************)
Closed == socket = None
Before(l, e1, e2) == \E i, j \in 1..Len(l) : i < j /\ l[i].ev = e1 /\ l[j].ev = e2

\* C1: a pass that takes the Stream from not-Closed to Closed removes it from
\* the Engine exactly once and fires on_close exactly once; no other pass
\* removes it or fires on_close, so that a close() made from inside on_close
\* does neither; and close() on a Closed Stream changes no field, calls
\* nothing and raises nothing.
C1_CloseOnce ==
    [][/\ (~Closed /\ Closed') =>
            (Count(log', "remove_channel") = 1 /\ Count(log', "on_close") = 1)
       /\ ~(~Closed /\ Closed') =>
            (Count(log', "remove_channel") = 0 /\ Count(log', "on_close") = 0)
       /\ (Closed /\ op'.name = "close") =>
            (/\ UNCHANGED <<fields, in_engine, wait_write, wire, written>>
             /\ log' = <<>>
             /\ raised' = None)]_vars

\* a close() whose on_close handler called close() again
C1_Witness ==
    /\ op.name = "close"
    /\ Closed
    /\ Before(log, "remove_channel", "on_close")
    /\ Before(log, "on_close", "call close")

\* C2: while the Stream has not been closed (a send failure closes it), the
\* bytes the send primitive accepted, followed by send_buffer, are the data of
\* the write() calls made while Connected, in call order: nothing is dropped,
\* duplicated or reordered.
C2_OutboundOrder == ~Closed => wire \o send_buffer = written

\* a flush that sent part of a backlog built by several writes
C2_Witness ==
    /\ ~Closed
    /\ op.name = "write_event"
    /\ Len(written) = MaxOut
    /\ wire # <<>>
    /\ send_buffer # <<>>
    /\ Count(log, "send") = 1

\* C6: write() on a Stream that is not Connected (Closed, Connecting,
\* Listening or fresh) changes no field, sends nothing, requests no
\* write-readiness, fires no on_write and raises nothing.
C6_WriteNotConnected ==
    [][(op'.name = "write" /\ ~connected) =>
            (/\ UNCHANGED <<fields, in_engine, wait_write, wire, written>>
             /\ Count(log', "send") = 0
             /\ Count(log', "wait_for_write") = 0
             /\ Count(log', "on_write") = 0
             /\ raised' = None)]_vars

\* a write of some bytes refused by a Connecting Stream
C6_Witness ==
    /\ op.name = "write"
    /\ op.data # <<>>
    /\ connecting
    /\ ~Closed
    /\ Count(log, "log.warning") = 1

ConnectEvent(l) == \E i \in 1..Len(l) : l[i].ev = "so_error"
PendingError(l) == \E i \in 1..Len(l) : l[i].ev = "so_error" /\ l[i].data # <<0>>

\* C3: a write-readiness pass on a Connecting Stream whose pending error is
\* non-zero ends with the Stream Closed, on_close fired once and on_connect
\* not fired; with a pending error of zero the Stream leaves Connecting,
\* on_connect fires, and the Stream is Connected unless a handler closed it.
C3_ConnectCompletion ==
    [][(op'.name = "write_event" /\ connecting) =>
            IF PendingError(log')
            THEN /\ Closed'
                 /\ Count(log', "on_close") = 1
                 /\ Count(log', "on_connect") = 0
            ELSE /\ ~connecting'
                 /\ Count(log', "on_connect") = 1
                 /\ connected' \/ Closed']_vars

\* C4: every public operation and every readiness handler returns normally,
\* whatever the primitives did: no exception escapes the Stream.
C4_NothingRaised == raised = None

\* C7: the addresses agree with the lifecycle: Connected has both, Listening
\* has local_addr only, Closed has neither.
C7_Addresses ==
    /\ connected => (remote_addr # None /\ local_addr # None)
    /\ listening => (remote_addr = None /\ local_addr # None)
    /\ Closed => (remote_addr = None /\ local_addr = None)

\* C8: at most one of Connecting, Connected, Listening holds, and a Closed
\* Stream has none of them and empty buffers.
C8_Lifecycle ==
    /\ ~(connecting /\ connected)
    /\ ~(connecting /\ listening)
    /\ ~(connected /\ listening)
    /\ Closed => (/\ ~connecting /\ ~connected /\ ~listening
                  /\ recv_buffer = <<>> /\ send_buffer = <<>>)

Sent(l) ==
    LET F[k \in 0..Len(l)] ==
            IF k = 0 THEN <<>>
            ELSE IF l[k].ev = "send" THEN F[k - 1] \o l[k].data ELSE F[k - 1]
    IN F[Len(l)]
PrimitiveFailed(l) == Count(l, "log.exception") > 0
Deferred == ~Closed /\ on_write = "close"

\* C5: end() with a backlog closes nothing and only puts close in the place
\* of on_write; from then on the Stream is closed by nothing but a failing
\* primitive, a call of close(), or the write-readiness pass that empties
\* send_buffer, and that pass closes it with on_close fired exactly once;
\* end() with an empty send_buffer closes the Stream at once, as close() does.
C5_GracefulEnd ==
    [][/\ (op'.name = "end" /\ ~Closed /\ send_buffer # <<>>) =>
            (/\ ~Closed'
             /\ on_write' = "close"
             /\ log' = <<>>
             /\ UNCHANGED <<socket, connected, connecting, listening, recv_buffer,
                            send_buffer, read_delimiter, remote_addr, local_addr,
                            in_engine, wire, written>>)
       /\ (op'.name = "end" /\ ~Closed /\ send_buffer = <<>>) =>
            (/\ Closed'
             /\ Count(log', "remove_channel") = 1
             /\ Count(log', "on_close") = 1)
       /\ (Deferred /\ Closed') =>
            \/ PrimitiveFailed(log')
            \/ op'.name = "close"
            \/ Count(log', "call close") > 0
            \/ op'.name = "write_event" /\ Sent(log') = send_buffer
       /\ (Deferred /\ op'.name = "write_event" /\ ~PrimitiveFailed(log')
             /\ Sent(log') = send_buffer) =>
            (/\ Closed'
             /\ Count(log', "on_close") = 1)
       /\ (Deferred /\ op'.name = "write_event" /\ ~PrimitiveFailed(log')
             /\ Sent(log') # send_buffer) =>
            (~Closed' /\ send_buffer' # <<>>)]_vars

\* the write-readiness pass that drained the backlog after end() and closed
C5_Witness ==
    /\ op.name = "write_event"
    /\ on_write = "close"
    /\ Closed
    /\ Before(log, "send", "on_write=close")
    /\ Before(log, "on_write=close", "on_close")
    /\ ~PrimitiveFailed(log)

Received(l) ==
    LET F[k \in 0..Len(l)] ==
            IF k = 0 THEN <<>>
            ELSE IF l[k].ev = "recv" THEN F[k - 1] \o l[k].data ELSE F[k - 1]
    IN F[Len(l)]
\* a read pass of a Stream that is not Listening, whose handlers call neither
\* close(), end() nor connect() and do not assign read_delimiter, and in which
\* no primitive failed
QuietReadPass ==
    /\ op'.name = "read_event"
    /\ ~listening
    /\ callbacks.on_read \in {"pass", "raise", "write"}
    /\ ~Closed'
    /\ read_delimiter' = read_delimiter
Occurs(q, t, i) == i + Len(t) <= Len(q) /\ SubSeq(q, i + 1, i + Len(t)) = t
Contains(q, t) == \E i \in 0..Len(q) : Occurs(q, t, i)
\* the payloads, each followed by the terminator
RECURSIVE Framed(_, _)
Framed(ps, t) == IF ps = <<>> THEN <<>> ELSE Head(ps) \o t \o Framed(Tail(ps), t)

FixedLengthPass(P) ==
    (QuietReadPass /\ P /\ read_delimiter.kind = "int" /\ read_delimiter.n >= 1) =>
            LET ps == Payloads(log') IN
            /\ Flatten(ps) \o recv_buffer' = recv_buffer \o Received(log')
            /\ \A i \in 1..Len(ps) : Len(ps[i]) = read_delimiter.n
            /\ Len(recv_buffer') < read_delimiter.n

TerminatorPass(P) ==
    (QuietReadPass /\ P /\ read_delimiter.kind = "str") =>
            LET ps == Payloads(log')
                t == read_delimiter.t
            IN
            /\ Framed(ps, t) \o recv_buffer' = recv_buffer \o Received(log')
            /\ \A i \in 1..Len(ps) :
                    \A k \in 0..(Len(ps[i]) - 1) : ~Occurs(ps[i] \o t, t, k)
            /\ ~Contains(recv_buffer', t)

\* C9: with read_delimiter an int n >= 1, after a read pass whose callbacks
\* neither close the Stream nor assign read_delimiter, the payloads of on_read
\* are the consecutive n-byte chunks of the buffered and received bytes, in
\* order, and what stays in recv_buffer is the rest, shorter than n.
C9_FixedLength == [][FixedLengthPass(TRUE)]_vars

\* C10: with read_delimiter a string t, after a read pass whose callbacks
\* neither close the Stream nor assign read_delimiter, the payloads of on_read
\* are the segments before each successive first occurrence of t, none holds
\* t, and what stays in recv_buffer is the rest, with no occurrence of t.
C10_Terminator == [][TerminatorPass(TRUE)]_vars

\* the same two, for the passes of a Stream that is Connected
FixedLengthWhenConnected == [][FixedLengthPass(connected)]_vars
TerminatorWhenConnected == [][TerminatorPass(connected)]_vars

\* C11: a read pass of a Listening Stream with k connections pending, no
\* accept failing and handlers that do not close the listener, fires on_accept
\* exactly k times, the i-th with the i-th handle accepted, and leaves the
\* Stream Listening with every handle open.
C11_AcceptAll ==
    [][(/\ op'.name = "read_event"
        /\ listening
        /\ callbacks.on_accept \notin {"close", "end"}
        /\ ~PrimitiveFailed(log')) =>
            LET k == op'.data[1] IN
            /\ Count(log', "on_accept") = k
            /\ Len(accepted') = k
            /\ \A i \in 1..k : accepted'[i]
            /\ \A i \in 1..Len(log') :
                    log'[i].ev = "on_accept" =>
                        log'[i].data =
                            <<Cardinality({j \in 1..i : log'[j].ev = "on_accept"})>>
            /\ listening'
            /\ ~Closed'
            /\ raised' = None]_vars

\* an accept pass that found MaxPending connections and delivered them all
C11_Witness ==
    /\ op.name = "read_event"
    /\ op.data = <<MaxPending>>
    /\ listening
    /\ Count(log, "on_accept") = MaxPending
    /\ ~PrimitiveFailed(log)

\* C12: connect() or listen() on an active Stream (Connecting, Connected or
\* Listening) does nothing but log a warning: every field, the Engine
\* registration and the bytes sent are as before, no callback runs and nothing
\* is raised.
C12_ActiveNoOp ==
    [][(op'.name \in {"connect", "listen"} /\ active(Self(DefaultEnv))) =>
            /\ UNCHANGED <<fields, in_engine, wait_write, wire, written>>
            /\ log' = <<Ev("log.warning", <<>>)>>
            /\ accepted' = <<>>
            /\ raised' = None]_vars

\* connect() was called on a Connected Stream
C12_Witness ==
    /\ op.name = "connect"
    /\ connected
    /\ ~Closed
    /\ log = <<Ev("log.warning", <<>>)>>

\* C13: active() is false on a Stream just constructed, on which neither
\* connect() nor listen() was called; true whenever the Stream is Connecting,
\* Connected or Listening; and false whenever the Stream is Closed, so after
\* every close().  (A Closed Stream is none of the three, whatever its flags.)
C13_Active ==
    LET a == active(Self(DefaultEnv)) IN
    /\ op.name = "__init__" => ~a
    /\ (~Closed /\ (connecting \/ connected \/ listening)) => a
    /\ Closed => ~a

\* close() has completed on a Stream that was open
C13_Witness ==
    /\ op.name = "close"
    /\ Closed
    /\ Count(log, "on_close") = 1
    /\ ~active(Self(DefaultEnv))

\* C14: every run of the extraction loop terminates, whatever the buffer and
\* whatever read_delimiter the owner assigned (no delimiter, a length n >= 0,
\* a terminator): an iteration after which the loop goes on has taken at least
\* one byte out of recv_buffer, so that the loop delivers at most
\* Len(recv_buffer) messages and never a message from a buffer that does not
\* shrink.
C14_LoopTerminates ==
    [][(Running /\ op'.flag) => Len(recv_buffer') < Len(recv_buffer)]_vars

\* the same, for every delimiter but the length 0
TerminatesUnlessZero ==
    [][(Running /\ op'.flag /\ read_delimiter # FixedLength(0)) =>
            Len(recv_buffer') < Len(recv_buffer)]_vars

\* C15: an accept that fails touches only its own pass: the listener stays
\* Listening and open, on_close does not fire, and no connection that the
\* same pass had already handed to on_accept is closed by the Stream.
C15_AcceptFailure ==
    [][(/\ op'.name = "read_event"
        /\ listening
        /\ callbacks.on_accept \notin {"close", "end"}
        /\ PrimitiveFailed(log')) =>
            /\ listening'
            /\ ~Closed'
            /\ Count(log', "on_close") = 0
            /\ \A i \in 1..Len(accepted') : accepted'[i]]_vars

BacklogAwaited == (~Closed /\ send_buffer # <<>>) => wait_write

\* C17: on_write (the owner's, or the close() that end() put in its place) is
\* only ever called with send_buffer empty and right after a send that did
\* not fail.  So a write event that leaves bytes unsent or finds the buffer
\* already empty, a write() that is buffered or sent in part, and a send that
\* fails, call no on_write.
C17_OnWrite ==
    \A i \in 1..Len(log) :
        log[i].ev \in {"on_write", "on_write=close"} =>
            /\ log[i].data = <<>>
            /\ i > 1
            /\ log[i - 1].ev = "send"

\* a write event has sent the last of a backlog and called on_write
C17_Witness ==
    /\ op.name = "write_event"
    /\ Count(log, "so_error") = 0
    /\ \E i \in 2..Len(log) :
            /\ log[i].ev = "on_write"
            /\ log[i - 1].ev = "send"
            /\ log[i - 1].data # <<>>

\* C18: when an on_read callback closes the Stream during a read pass, no
\* on_read is called after the close, even if the bytes received held more
\* complete messages, and the pass ends with the Stream Closed and
\* recv_buffer empty.
C18_ClosedInOnRead ==
    (op.name = "read_event" /\ Before(log, "on_read", "remove_channel")) =>
        /\ ~Before(log, "remove_channel", "on_read")
        /\ Closed
        /\ recv_buffer = <<>>

\* on_read closed the Stream on the first of two one-byte messages
C18_Witness ==
    /\ op.name = "read_event"
    /\ Received(log) = <<"b", "b">>
    /\ Payloads(log) = << <<"b">> >>
    /\ Before(log, "on_read", "remove_channel")
    /\ Closed

\* C19: on_read is called only while the Stream is Connected: a read event
\* on a Stream that is not Connected (still Connecting, or never connected)
\* calls no on_read.
C19_OnReadConnected ==
    [][(op'.name = "read_event" /\ ~connected) => Count(log', "on_read") = 0]_vars

\* a framer of its own: one unit of q under the delimiter dl, if q holds one
Unit(q, dl) ==
    CASE dl.kind = "None" ->
            [ok |-> q # <<>>, payload |-> q, taken |-> q, rest |-> <<>>]
      [] dl.kind = "int" ->
            LET n == Min(dl.n, Len(q))
            IN [ok |-> Len(q) >= dl.n, payload |-> Take(q, n),
                taken |-> Take(q, n), rest |-> Drop(q, n)]
      [] dl.kind = "str" ->
            LET at == {i \in 0..Len(q) : Occurs(q, dl.t, i)}
                m == IF at = {} THEN 0 ELSE CHOOSE i \in at : \A j \in at : i <= j
                e == Min(m + Len(dl.t), Len(q))
            IN [ok |-> at # {}, payload |-> Take(q, m),
                taken |-> Take(q, e), rest |-> Drop(q, e)]
      [] OTHER ->
            [ok |-> FALSE, payload |-> <<>>, taken |-> <<>>, rest |-> q]

\* the units of q, the delimiter looked up before each: dl for the first, and
\* for the following ones what the handler assigned after it, new
RECURSIVE Units(_, _, _)
Units(q, dl, new) ==
    LET u == Unit(q, dl) IN
    IF q = <<>> \/ ~u.ok
    THEN [payloads |-> <<>>, taken |-> <<>>, rest |-> q]
    ELSE LET r == Units(u.rest, new, new)
         IN [payloads |-> <<u.payload>> \o r.payloads,
             taken |-> u.taken \o r.taken, rest |-> r.rest]

\* a read pass whose on_read handler assigns read_delimiter
DelimiterPass(P) ==
    (/\ op'.name = "read_event"
     /\ ~listening
     /\ callbacks.on_read = "delim"
     /\ ~Closed'
     /\ P) =>
        LET all == recv_buffer \o Received(log')
            ref == Units(all, read_delimiter, callbacks.delim)
        IN /\ Payloads(log') = ref.payloads
           /\ recv_buffer' = ref.rest
           /\ ref.taken \o recv_buffer' = all

\* C20: when on_read assigns read_delimiter, the next iteration of the loop
\* frames what is left with the new delimiter: the payloads delivered in the
\* pass are those of a framer that looks the delimiter up before every unit,
\* and the bytes taken and the bytes left in recv_buffer are together the
\* bytes buffered and received, each once.
C20_DelimiterReread == [][DelimiterPass(TRUE)]_vars

\* the same, for the Connected Stream
DelimiterRereadWhenConnected == [][DelimiterPass(connected)]_vars

====
